---- MODULE Spec2Model ----
(***************************************************************************)
(* Model of the GFS pipeline driver (src/pipeline.py) and of the rendering *)
(* script it launches (src/forecast.py).                                   *)
(*                                                                         *)
(* Strings are sequences of tokens.  A token is a chunk of text that holds *)
(* no '=' and no '/' character, except the tokens "=" and "/" themselves;   *)
(* a path is a string with "/" between its components.  File names of the  *)
(* data directory are sequences of single characters so that the substring *)
(* test of the freshness gate is computed, not assumed.                    *)
(***************************************************************************)
EXTENDS Integers, Sequences, FiniteSets, TLC

VARIABLES
    pc,         \* position of the driver: which call comes next
    extra_env,  \* run_pipeline's dict of parsed --env entries
    err,        \* the exception that ended the run, or NoErr
    args,       \* the argparse.Namespace given to run_pipeline / the call's parameters
    environ,    \* os.environ of the driver process
    dataTree,   \* what Path(data_dir).rglob("*") yields: name, kind, mtime
    now,        \* the wall clock (UTC), in ticks
    gribs,      \* the files of forecast.py's INPUT_DIR that match its glob, sorted
    fs,         \* image directories: absolute path -> set of relative paths
    created,    \* directories the driver or the script created (mkdir)
    log,        \* stage events in the order they happened
    launches,   \* subprocess launches: stage and the environment handed to it
    smtp,       \* the mail session: connected, credential of login, archive sent
    archive,    \* entry names of the archive built by _zip_images, or NoneList
    rendered    \* per GRIB file, the products forecast.py wrote for it

vars == <<pc, extra_env, err, args, environ, dataTree, now, gribs, fs, created, log,
          launches, smtp, archive, rendered>>

-----------------------------------------------------------------------------
(* Bounds of the model *)

\* ticks of the model clock per hour (the code counts 3600 seconds per hour)
HourTicks == 2
\* hours per UTC calendar day in the model clock
DayHours == 2
\* the clock and the modification times span this many calendar days
Days == 2
\* --max-age-hours ranges over 0..MaxAgeHours
MaxAgeHours == 2
\* at most this many entries under the data directory
MaxTree == 2
\* at most this many --env entries
MaxEnv == 2
\* at most this many GRIB files matched by forecast.py
MaxGribs == 2

DayTicks == HourTicks * DayHours
Times == 0..(Days * DayTicks - 1)

-----------------------------------------------------------------------------
(* Strings *)

\* Python's None, kept apart from every string (the empty string is <<>>)
None == <<"<None>">>

\* None where a list of strings (sequences of tokens) is expected
NoneList == << None >>

\* bool(s) of a str | None
Truthy(s) == s # None /\ s # <<>>

\* x or y
PyOr(x, y) == IF Truthy(x) THEN x ELSE y

\* sub in s
Contains(s, sub) ==
    \E i \in 0..(Len(s) - Len(sub)) :
        \A j \in 1..Len(sub) : s[i + j] = sub[j]

SetMax(S) == CHOOSE m \in S : \A x \in S : x <= m

\* str.lower() on one character
LowerChar(c) ==
    CASE c = "G" -> "g"
      [] c = "R" -> "r"
      [] c = "I" -> "i"
      [] c = "B" -> "b"
      [] OTHER -> c

\* str.lower()
Lower(s) == [i \in 1..Len(s) |-> LowerChar(s[i])]

-----------------------------------------------------------------------------
(* Paths and environments *)

\* the working directory of the driver process
Cwd == <<"/", "work">>

\* the literal forecast.py assigns to INPUT_DIR and to OUTPUT_DIR
PutPath == <<"/", "PUT", "/", "YOUR", "/", "PATH">>

\* Path(p).resolve(): an absolute path stays, a relative one is joined to the
\* working directory
Resolve(p) == IF Len(p) > 0 /\ p[1] = "/" THEN p ELSE Cwd \o <<"/">> \o p

\* dir / rel
Join(dir, rel) == dir \o <<"/">> \o rel

\* path.name: the text after the last "/"
Basename(p) ==
    LET seps == {i \in 1..Len(p) : p[i] = "/"}
    IN  IF seps = {} THEN p ELSE SubSeq(p, SetMax(seps) + 1, Len(p))

\* env[k] = v
EnvSet(env, k, v) == [x \in DOMAIN env \cup {k} |-> IF x = k THEN v ELSE env[x]]

\* env.update(extra)
EnvUpdate(env, extra) ==
    [x \in DOMAIN env \cup DOMAIN extra |->
        IF x \in DOMAIN extra THEN extra[x] ELSE env[x]]

\* os.getenv(k)
GetEnv(env, k) == IF k \in DOMAIN env THEN env[k] ELSE None

EmptyEnv == [x \in {} |-> <<>>]

-----------------------------------------------------------------------------
(* Freshness gate: pipeline.py, _latest_mtime and _should_skip_download *)

Grb2 == <<"g", "r", "b", "2">>
Grib2 == <<"g", "r", "i", "b", "2">>

\* the filter of _latest_mtime's comprehension
NameMatches(name) == Contains(Lower(name), Grb2) \/ Contains(Lower(name), Grib2)

\* _latest_mtime: <<>> is None, <<t>> the newest modification time; rglob("*")
\* yields every path under the directory, directories included
latest_mtime(tree) ==
    LET mtimes == {e.mtime : e \in {x \in tree : NameMatches(x.name)}}
    IN  IF mtimes = {} THEN <<>> ELSE <<SetMax(mtimes)>>

\* datetime.date() of a UTC time
DateOf(t) == t \div DayTicks

\* _should_skip_download
should_skip_download(tree, max_age_hours, clock) ==
    LET latest == latest_mtime(tree)
    IN  IF latest = <<>> THEN FALSE
        ELSE LET fresh_enough == (clock - latest[1]) < max_age_hours * HourTicks
                 same_day == DateOf(latest[1]) = DateOf(clock)
             IN  fresh_enough \/ same_day

-----------------------------------------------------------------------------
(* Subprocess wrappers: pipeline.py, run_gfs_download and run_forecast_plot *)

NoErr == "none"

\* how subprocess.run(..., check=True) of the download script can end
DownloadOutcomes == {"ok", "nonzero", "nolaunch"}

\* subprocess.run without check=True: a non-zero exit status is not raised
RunRaises_unchecked(outcome) == outcome = "nolaunch"

\* whether subprocess.run(..., check=True) raises: on a non-zero exit status
\* and when the executable cannot be started
RunRaises(outcome) == outcome # "ok"

\* the exception subprocess.run(check=True) raises for an outcome
SubprocessError(outcome) ==
    IF outcome = "nonzero" THEN "CalledProcessError" ELSE "OSError"

\* the environment run_gfs_download hands to GFS.py
DownloadEnv(env, data_dir, extra) ==
    EnvUpdate(EnvSet(env, <<"DATA_DIR">>, Resolve(data_dir)), extra)

\* the environment run_forecast_plot hands to forecast.py
RenderEnv(env, input_dir, output_dir, extra) ==
    EnvUpdate(EnvSet(EnvSet(env, <<"INPUT_DIR">>, Resolve(input_dir)),
                     <<"OUTPUT_DIR">>, Resolve(output_dir)), extra)

run_gfs_download ==
    /\ pc = "download"
    /\ created' = created \cup {Resolve(args.data_dir)}
    /\ IF ~args.force_download
          /\ should_skip_download(dataTree, args.max_age_hours, now)
       THEN /\ log' = Append(log, "download.skip")
            /\ pc' = "render"
            /\ UNCHANGED <<err, launches>>
       ELSE \E outcome \in DownloadOutcomes :
            /\ launches' = Append(launches,
                    [stage |-> "download",
                     env |-> DownloadEnv(environ, args.data_dir, extra_env),
                     outcome |-> outcome,
                     phase |-> IF outcome = "nolaunch" THEN "nolaunch" ELSE "main"])
            /\ IF ~RunRaises(outcome)
               THEN /\ log' = Append(log, "download.ok")
                    /\ pc' = "render"
                    /\ err' = err
               ELSE /\ log' = Append(log, "download.failed")
                    /\ pc' = "error"
                    /\ err' = SubprocessError(outcome)
    /\ UNCHANGED <<extra_env, args, environ, dataTree, now, gribs, fs, smtp,
                   archive, rendered>>

-----------------------------------------------------------------------------
(* The rendering script: forecast.py *)

\* the four products in the order the loop body renders them
Products == <<"Temp2m", "Wind10m", "pressure_thickness", "TotPrec">>

ProductSet == {Products[i] : i \in 1..Len(Products)}

\* INPUT_DIR and OUTPUT_DIR as the script binds them: two literals, os.environ
\* is not read
ScriptInputDir(env) == PutPath
ScriptOutputDir(env) == PutPath

\* the name _save is given for a product of a file: product, timestamp token
\* of the file's valid time, extension
ImageName(product, valid) == <<product, "_", valid, ".png">>

\* index of the first product of the file whose rendering raises, Len + 1 if none
FirstFailure(g) ==
    IF \E i \in 1..Len(Products) : Products[i] \in g.fails
    THEN CHOOSE i \in 1..Len(Products) :
            /\ Products[i] \in g.fails
            /\ \A j \in 1..(i - 1) : Products[j] \notin g.fails
    ELSE Len(Products) + 1

\* one try statement per product: a failing product is skipped, the others
\* are rendered
ProcessFile_tryPerProduct(g) ==
    [written |-> ProductSet \ g.fails,
     handler |-> IF g.fails = {} THEN "none" ELSE "local"]

\* one iteration of the loop: the products saved before the first exception,
\* and the handler that caught it ("local": the except clause around the
\* precipitation field's lookup; "file": the except Exception of the iteration)
ProcessFile(g) ==
    LET k == FirstFailure(g)
    IN  [written |-> {Products[i] : i \in 1..(k - 1)},
         handler |-> IF k > Len(Products) THEN "none"
                     ELSE IF Products[k] = "TotPrec" /\ g.tpErr = "lookup"
                          THEN "local" ELSE "file"]

\* the try statement around the loop instead of inside it: the first exception
\* that reaches it ends the script
LoopContinues_tryOutside(result) == result.handler # "file"

\* whether the for loop goes on to the next file after an iteration: every
\* handler ends inside the loop body
LoopContinues(result) == TRUE

RECURSIVE RunLoop(_, _, _)
RunLoop(files, i, acc) ==
    IF i > Len(files) THEN [exit |-> 0, results |-> acc]
    ELSE LET r == ProcessFile(files[i])
         IN  IF LoopContinues(r) THEN RunLoop(files, i + 1, Append(acc, r))
             ELSE [exit |-> 1, results |-> Append(acc, r)]

\* the script's main part: the glob, the check for no input, the loop
forecast_main(files) ==
    IF files = <<>> THEN [exit |-> 1, results |-> <<>>]
    ELSE RunLoop(files, 1, <<>>)

\* the images a run leaves in the output directory
ImagesWritten(files, results) ==
    {ImageName(p, files[i].valid) :
        <<i, p>> \in {x \in (1..Len(results)) \X ProductSet :
                        x[2] \in results[x[1]].written}}

\* forecast.py run as a process with environment env
ScriptEffect(env) ==
    LET res == forecast_main(gribs)
        out == ScriptOutputDir(env)
    IN  /\ rendered' = res.results
        /\ fs' = [fs EXCEPT ![out] = @ \cup ImagesWritten(gribs, res.results)]

ScriptExit == forecast_main(gribs).exit

\* the script run on its own
forecast_py ==
    /\ pc = "script"
    /\ created' = created \cup {ScriptOutputDir(environ)}
    /\ ScriptEffect(environ)
    /\ log' = Append(log, IF ScriptExit = 0 THEN "script.exit0" ELSE "script.exit1")
    /\ pc' = "exited"
    /\ err' = IF gribs = <<>> THEN "FileNotFoundError" ELSE err
    /\ UNCHANGED <<extra_env, args, environ, dataTree, now, gribs, launches,
                   smtp, archive>>

\* how far the launch of forecast.py gets: the executable cannot be started,
\* the script ends with an error before its main part (an import, the mkdir
\* of OUTPUT_DIR), or it reaches the glob
RenderPhases == {"nolaunch", "startup", "main"}

run_forecast_plot ==
    /\ pc = "render"
    /\ \E phase \in RenderPhases :
        LET env == RenderEnv(environ, args.data_dir, args.fig_dir, extra_env)
            outcome == IF phase = "nolaunch" THEN "nolaunch"
                       ELSE IF phase = "main" /\ ScriptExit = 0 THEN "ok" ELSE "nonzero"
        IN  /\ launches' = Append(launches,
                    [stage |-> "render", env |-> env, outcome |-> outcome,
                     phase |-> phase])
            /\ IF phase = "main"
               THEN /\ created' = created \cup {Resolve(args.fig_dir),
                                                ScriptOutputDir(env)}
                    /\ ScriptEffect(env)
               ELSE /\ created' = created \cup {Resolve(args.fig_dir)}
                    /\ UNCHANGED <<fs, rendered>>
            /\ IF ~RunRaises(outcome)
               THEN /\ log' = Append(log, "render.ok")
                    /\ pc' = IF args.send_email THEN "email" ELSE "finish"
                    /\ err' = err
               ELSE /\ log' = Append(log, "render.failed")
                    /\ pc' = "error"
                    /\ err' = SubprocessError(outcome)
    /\ UNCHANGED <<extra_env, args, environ, dataTree, now, gribs, smtp, archive>>

-----------------------------------------------------------------------------
(* E-mail stage: pipeline.py, _zip_images and send_images_via_email *)

\* every image name of the model in the order sorted() gives paths of one
\* directory (code-point order of the names)
PngOrder ==
    << <<"Temp2m", "_", "t0", ".png">>, <<"Temp2m", "_", "t1", ".png">>,
       <<"TotPrec", "_", "t0", ".png">>, <<"TotPrec", "_", "t1", ".png">>,
       <<"Wind10m", "_", "t0", ".png">>, <<"Wind10m", "_", "t1", ".png">>,
       <<"a", ".png">>,
       <<"pressure_thickness", "_", "t0", ".png">>,
       <<"pressure_thickness", "_", "t1", ".png">> >>

\* fnmatch of one path component against "*.png" (case-sensitive)
IsPngName(name) == Len(name) > 0 /\ name[Len(name)] = ".png"

\* Path(image_dir).glob("*.png"): the direct children whose name matches,
\* each as image_dir / name
GlobPng(image_dir, content) ==
    {Join(image_dir, rel) : rel \in {r \in content :
                                        (\A i \in 1..Len(r) : r[i] # "/") /\ IsPngName(r)}}

\* sorted(paths) for paths of one directory
SortedPaths(paths) ==
    LET names == {Basename(q) : q \in paths}
        order == SelectSeq(PngOrder, LAMBDA n : n \in names)
    IN  [i \in 1..Len(order) |-> CHOOSE q \in paths : Basename(q) = order[i]]

\* zf.write(path) without arcname: the entry keeps the path
Arcname_fullPath(path) == path

\* the arcname zf.write is given for a path
Arcname(path) == Basename(path)

\* _zip_images: the entry names of the archive, in the order written
zip_images(image_paths) == [i \in 1..Len(image_paths) |-> Arcname(image_paths[i])]

\* pw = os.getenv("EMAIL_PASSWORD") or password
ResolvePassword_envFirst(password, env) == PyOr(GetEnv(env, <<"EMAIL_PASSWORD">>), password)

\* pw = password or os.getenv("EMAIL_PASSWORD")
ResolvePassword(password, env) == PyOr(password, GetEnv(env, <<"EMAIL_PASSWORD">>))

\* the test that raises "Set EMAIL_PASSWORD ..."
PasswordMissing(pw) == pw = None

\* how the SMTP session can end: all of it, or an exception at one of its calls
SmtpOutcomes == {"ok", "connect", "login", "send"}

NoSession == [connected |-> FALSE, login |-> None, sent |-> NoneList]

send_images_via_email ==
    /\ pc = "email"
    /\ LET pw == ResolvePassword(args.password, environ)
           dir == Resolve(args.fig_dir)
           png_paths == SortedPaths(GlobPng(args.fig_dir, fs[dir]))
       IN  IF ~Truthy(args.sender) \/ ~Truthy(args.recipients)
           THEN /\ pc' = "error" /\ err' = "ValueError"
                /\ log' = Append(log, "email.failed")
                /\ UNCHANGED <<smtp, archive>>
           ELSE IF PasswordMissing(pw)
           THEN /\ pc' = "error" /\ err' = "ValueError"
                /\ log' = Append(log, "email.failed")
                /\ UNCHANGED <<smtp, archive>>
           ELSE IF png_paths = <<>>
           THEN /\ pc' = "error" /\ err' = "FileNotFoundError"
                /\ log' = Append(log, "email.failed")
                /\ UNCHANGED <<smtp, archive>>
           ELSE \E net \in SmtpOutcomes :
                /\ archive' = zip_images(png_paths)
                /\ smtp' = [connected |-> net # "connect",
                            login |-> IF net = "connect" THEN None ELSE pw,
                            sent |-> IF net = "ok" THEN archive' ELSE NoneList]
                /\ IF net = "ok"
                   THEN /\ pc' = "finish" /\ err' = err
                        /\ log' = Append(log, "email.sent")
                   ELSE /\ pc' = "error" /\ err' = "SMTPError"
                        /\ log' = Append(log, "email.failed")
    /\ UNCHANGED <<extra_env, args, environ, dataTree, now, gribs, fs, created,
                   launches, rendered>>

-----------------------------------------------------------------------------
(* Orchestrator: pipeline.py, run_pipeline *)

\* "=" not in kv
Malformed(kv) == \A i \in 1..Len(kv) : kv[i] # "="

FirstEq(kv) == CHOOSE i \in 1..Len(kv) : kv[i] = "=" /\ \A j \in 1..(i - 1) : kv[j] # "="

LastEq(kv) == CHOOSE i \in 1..Len(kv) : kv[i] = "=" /\ \A j \in (i + 1)..Len(kv) : kv[j] # "="

\* k, v = kv.rsplit("=", 1)
SplitKey_rsplit(kv) == SubSeq(kv, 1, LastEq(kv) - 1)

\* k, v = kv.split("=", 1)
SplitKey(kv) == SubSeq(kv, 1, FirstEq(kv) - 1)
SplitValue(kv) == SubSeq(kv, FirstEq(kv) + 1, Len(kv))

\* the dict the loop over args.env builds from well-formed entries: a later
\* entry replaces an earlier one of the same key
RECURSIVE BuildExtraEnv(_, _, _)
BuildExtraEnv(entries, i, acc) ==
    IF i > Len(entries) THEN acc
    ELSE BuildExtraEnv(entries, i + 1,
                       EnvSet(acc, SplitKey(entries[i]), SplitValue(entries[i])))

\* the first part of run_pipeline: the loop over args.env
parse_env ==
    /\ pc = "start"
    /\ LET entries == IF args.env # NoneList /\ args.env # <<>> THEN args.env ELSE <<>>
       IN  IF \E i \in 1..Len(entries) : Malformed(entries[i])
           THEN /\ pc' = "error" /\ err' = "ValueError"
                /\ UNCHANGED extra_env
           ELSE /\ pc' = "download" /\ err' = err
                /\ extra_env' = BuildExtraEnv(entries, 1, EmptyEnv)
    /\ UNCHANGED <<args, environ, dataTree, now, gribs, fs, created, log,
                   launches, smtp, archive, rendered>>

\* the last statement of run_pipeline
finish ==
    /\ pc = "finish"
    /\ pc' = "done"
    /\ log' = Append(log, "finished")
    /\ UNCHANGED <<extra_env, err, args, environ, dataTree, now, gribs, fs,
                   created, launches, smtp, archive, rendered>>

-----------------------------------------------------------------------------
(* Inputs *)

\* sequences over S of length at most n
SeqsUpTo(S, n) == UNION {[1..k -> S] : k \in 0..n}

\* subsets of S with at most n elements
SubsetsUpTo(S, n) == {{s[i] : i \in 1..Len(s)} : s \in SeqsUpTo(S, n)}

\* --env entries: well-formed, without '=', with a second '=', and with the
\* keys of the stage-specific path variables
EnvEntries ==
    { <<"K", "=", "v">>, <<"K", "v">>, <<"K", "=", "v", "=", "w">>,
      <<"DATA_DIR", "=", "/alt">>, <<"INPUT_DIR", "=", "/alt">>,
      <<"OUTPUT_DIR", "=", "/alt">> }

EnvLists == {NoneList} \cup SeqsUpTo(EnvEntries, MaxEnv)

\* names of entries under the data directory
TreeNames ==
    { <<"a", ".", "g", "r", "b", "2">>, <<"G", "R", "I", "B", "2">>,
      <<"g", "r", "b">>, <<"x", ".", "t", "x", "t">> }

TreeEntries == [name : TreeNames, kind : {"file", "dir"}, mtime : Times]

\* what the image directories can hold before the run
ImageRelPaths ==
    { <<"a", ".png">>, <<"b", ".PNG">>, <<"x", ".txt">>,
      <<"sub", "/", "a", ".png">>,
      <<"Temp2m", "_", "t0", ".png">>, <<"TotPrec", "_", "t1", ".png">> }

FigsPath == Resolve(<<"FIGS">>)
FsDirs == {FigsPath, PutPath}

\* a GRIB file as forecast.py sees it: the timestamp token of its valid time,
\* the products whose rendering raises, and whether a failure of the
\* precipitation field is one of the three exception types caught at its lookup
GribFiles ==
    {g \in [valid : {"t0", "t1"}, fails : SUBSET ProductSet, tpErr : {"lookup", "other"}] :
        g.tpErr = "other" => "TotPrec" \in g.fails}

DefaultArgs ==
    [env |-> NoneList, data_dir |-> <<"DATA">>, fig_dir |-> <<"FIGS">>,
     max_age_hours |-> 1, force_download |-> FALSE, send_email |-> TRUE,
     sender |-> <<"s">>, recipients |-> <<"r">>, password |-> <<"p">>]

Quiet ==
    /\ err = NoErr
    /\ extra_env = EmptyEnv
    /\ created = {}
    /\ log = <<>>
    /\ launches = <<>>
    /\ smtp = NoSession
    /\ archive = NoneList
    /\ rendered = <<>>

-----------------------------------------------------------------------------
(* Specifications *)

\* a run of run_pipeline
Init ==
    /\ pc = "start"
    /\ Quiet
    /\ \E e \in EnvLists, fd \in {<<"FIGS">>, PutPath}, f \in BOOLEAN,
          se \in BOOLEAN :
          args = [DefaultArgs EXCEPT !.env = e, !.fig_dir = fd,
                     !.force_download = f, !.send_email = se]
    /\ environ \in { EmptyEnv,
                     [k \in {<<"DATA_DIR">>, <<"OUTPUT_DIR">>} |-> <<"/old">>] }
    /\ now = DayTicks
    /\ dataTree \in { {}, {[name |-> <<"a", ".", "g", "r", "b", "2">>,
                            kind |-> "file", mtime |-> DayTicks]} }
    /\ gribs \in SeqsUpTo({ [valid |-> "t0", fails |-> {}, tpErr |-> "lookup"],
                            [valid |-> "t1", fails |-> ProductSet, tpErr |-> "other"] },
                          MaxGribs)
    /\ fs \in { [d \in FsDirs |-> {}],
                [d \in FsDirs |-> IF d = FigsPath THEN {<<"a", ".png">>} ELSE {}] }
    /\ args.fig_dir = PutPath => fs[FigsPath] = {}

Next ==
    \/ parse_env
    \/ run_gfs_download
    \/ run_forecast_plot
    \/ send_images_via_email
    \/ finish

Spec == Init /\ [][Next]_vars

\* run_gfs_download called on its own
InitGate ==
    /\ pc = "download"
    /\ Quiet
    /\ \E m \in 0..MaxAgeHours, f \in BOOLEAN :
          args = [DefaultArgs EXCEPT !.max_age_hours = m, !.force_download = f]
    /\ environ = EmptyEnv
    /\ now \in Times
    /\ dataTree \in SubsetsUpTo(TreeEntries, MaxTree)
    /\ gribs = <<>>
    /\ fs = [d \in FsDirs |-> {}]

NextGate == run_gfs_download

SpecGate == InitGate /\ [][NextGate]_vars

\* send_images_via_email called on its own
InitMail ==
    /\ pc = "email"
    /\ Quiet
    /\ \E sd \in {None, <<>>, <<"s">>}, rc \in {None, <<>>, <<"r">>},
          pw \in {None, <<>>, <<"p">>}, fd \in {<<"FIGS">>, PutPath} :
          args = [DefaultArgs EXCEPT !.sender = sd, !.recipients = rc,
                     !.password = pw, !.fig_dir = fd]
    /\ environ \in { EmptyEnv,
                     [k \in {<<"EMAIL_PASSWORD">>} |-> <<>>],
                     [k \in {<<"EMAIL_PASSWORD">>} |-> <<"e">>] }
    /\ now = 0
    /\ dataTree = {}
    /\ gribs = <<>>
    /\ \E c \in SUBSET ImageRelPaths :
          fs = [d \in FsDirs |-> IF d = Resolve(args.fig_dir) THEN c ELSE {}]

NextMail == send_images_via_email

SpecMail == InitMail /\ [][NextMail]_vars

\* forecast.py run on its own
InitRender ==
    /\ pc = "script"
    /\ Quiet
    /\ args = DefaultArgs
    /\ environ \in { EmptyEnv,
                     [k \in {<<"INPUT_DIR">>, <<"OUTPUT_DIR">>} |->
                        IF k = <<"INPUT_DIR">> THEN Resolve(<<"DATA">>) ELSE FigsPath] }
    /\ now = 0
    /\ dataTree = {}
    /\ gribs \in SeqsUpTo(GribFiles, MaxGribs)
    /\ fs = [d \in FsDirs |-> {}]

NextRender == forecast_py

SpecRender == InitRender /\ [][NextRender]_vars

-----------------------------------------------------------------------------
(* Freshness gate *)

\* the entries of the data directory that are files with a GRIB marker in
\* their name
MatchingFiles == {e \in dataTree : e.kind = "file" /\ NameMatches(e.name)}

NewestFile == SetMax({e.mtime : e \in MatchingFiles})

DownloadSkipped == log = <<"download.skip">> /\ launches = <<>>

DownloadLaunched == Len(launches) = 1 /\ launches[1].stage = "download"

\* C1: run_gfs_download skips the download subprocess if and only if
\* force_download is false, at least one file with the GRIB marker in its name
\* exists under the directory, and the newest such file is younger than
\* max_age_hours hours or from the current UTC date; in every other case the
\* subprocess is launched.
C1_SkipIffFreshFile ==
    pc # "download" =>
        /\ DownloadSkipped <=>
              /\ ~args.force_download
              /\ MatchingFiles # {}
              /\ \/ now - NewestFile < args.max_age_hours * HourTicks
                 \/ DateOf(NewestFile) = DateOf(now)
        /\ DownloadSkipped \/ DownloadLaunched

\* C1 for data directories in which no directory carries the marker: there the
\* gate decides as the claim says
C1_SkipIffFreshFile_NoMarkedDirectory ==
    (pc # "download" /\ \A e \in dataTree : e.kind = "dir" => ~NameMatches(e.name)) =>
        /\ DownloadSkipped <=>
              /\ ~args.force_download
              /\ MatchingFiles # {}
              /\ \/ now - NewestFile < args.max_age_hours * HourTicks
                 \/ DateOf(NewestFile) = DateOf(now)
        /\ DownloadSkipped \/ DownloadLaunched

-----------------------------------------------------------------------------
(* Stage order and failure propagation *)

RenderEvents == {"render.ok", "render.failed"}
EmailEvents == {"email.sent", "email.failed"}
FailureEvents == {"download.failed", "render.failed", "email.failed"}

EmailStarted == smtp # NoSession \/ archive # NoneList \/ \E i \in 1..Len(log) : log[i] \in EmailEvents

\* C2: the stages start in the order download, render, e-mail, each only after
\* the one before it completed successfully; after a stage failure no later
\* stage starts, the error reaches the caller and the run never prints
\* 'Pipeline finished'.
C2_StagesInOrderAbortOnFailure ==
    /\ \A i \in 1..Len(log) :
        /\ log[i] \in RenderEvents => i = 2 /\ log[1] \in {"download.skip", "download.ok"}
        /\ log[i] \in EmailEvents => i = 3 /\ log[2] = "render.ok"
        /\ log[i] = "finished" => i = Len(log) /\ log[i - 1] \in {"render.ok", "email.sent"}
        /\ log[i] \in FailureEvents => i = Len(log) /\ pc = "error" /\ err # NoErr
    /\ \A i \in 1..Len(launches) :
        /\ launches[i].stage = "render" =>
              /\ log # <<>> /\ log[1] \in {"download.skip", "download.ok"}
              /\ \A j \in 1..(i - 1) : launches[j].stage = "download" /\ launches[j].outcome = "ok"
        /\ launches[i].outcome # "ok" =>
              /\ i = Len(launches)
              /\ pc = "error"
              /\ err = SubprocessError(launches[i].outcome)
              /\ ~EmailStarted
    /\ EmailStarted => Len(log) >= 3 /\ log[2] = "render.ok" /\ args.send_email
    /\ pc = "done" => err = NoErr /\ log[Len(log)] = "finished"
    /\ pc = "error" => err # NoErr /\ \A i \in 1..Len(log) : log[i] # "finished"

\* a run in which the download succeeded, the render script exited non-zero
\* and an e-mail had been asked for
C2_Witness ==
    /\ args.send_email
    /\ Len(launches) = 2
    /\ launches[1].outcome = "ok"
    /\ launches[2].outcome = "nonzero"
    /\ pc = "error"

-----------------------------------------------------------------------------
(* Environment of the stages *)

\* C4: whenever a stage subprocess is launched, DATA_DIR (download stage) and
\* INPUT_DIR / OUTPUT_DIR (render stage) in its environment equal the resolved
\* data and figure directories, whatever the process environment and the --env
\* overrides are.
C4_StageEnvHasResolvedPaths ==
    \A i \in 1..Len(launches) :
        LET l == launches[i]
        IN  /\ l.stage = "download" => l.env[<<"DATA_DIR">>] = Resolve(args.data_dir)
            /\ l.stage = "render" =>
                  /\ l.env[<<"INPUT_DIR">>] = Resolve(args.data_dir)
                  /\ l.env[<<"OUTPUT_DIR">>] = Resolve(args.fig_dir)

\* C4 for runs whose --env entries use none of the three keys: there the
\* stage-specific variables are the resolved paths
C4_StageEnvHasResolvedPaths_NoPathOverride ==
    (\A k \in DOMAIN extra_env : k \notin {<<"DATA_DIR">>, <<"INPUT_DIR">>, <<"OUTPUT_DIR">>}) =>
        C4_StageEnvHasResolvedPaths

\* C5: the rendering stage reads its input from the directory the driver
\* passed in INPUT_DIR and writes every image to the directory passed in
\* OUTPUT_DIR, so that the images of a run are in the figure directory the
\* e-mail stage collects them from.
C5_RenderUsesDriverDirs ==
    \A i \in 1..Len(launches) :
        LET l == launches[i]
        IN  (l.stage = "render" /\ l.outcome = "ok") =>
                /\ ScriptInputDir(l.env) = l.env[<<"INPUT_DIR">>]
                /\ ScriptOutputDir(l.env) = l.env[<<"OUTPUT_DIR">>]
                /\ ScriptOutputDir(l.env) = Resolve(args.fig_dir)
                /\ ImagesWritten(gribs, rendered) \subseteq fs[Resolve(args.fig_dir)]

-----------------------------------------------------------------------------
(* --env entries *)

HasEq(s) == \E i \in 1..Len(s) : s[i] = "="

EnvEntriesGiven == IF args.env = NoneList THEN <<>> ELSE args.env

SomeEntryMalformed == \E i \in 1..Len(EnvEntriesGiven) : ~HasEq(EnvEntriesGiven[i])

\* k is the text of entry e before its first '='
IsKeyOf(k, e) ==
    /\ ~HasEq(k)
    /\ Len(e) > Len(k)
    /\ SubSeq(e, 1, Len(k)) = k
    /\ e[Len(k) + 1] = "="

\* C8: if any --env entry lacks '=', run_pipeline raises a configuration error
\* before any external effect (no directory created, no subprocess launched, no
\* mail session), wherever the entry stands in the list; for well-formed
\* entries the key is the text before the first '=' and so holds no '='.
C8_MalformedEnvRaisesFirst ==
    /\ (SomeEntryMalformed /\ pc # "start") =>
          /\ pc = "error" /\ err = "ValueError"
          /\ created = {} /\ launches = <<>> /\ log = <<>>
          /\ smtp = NoSession /\ archive = NoneList
          /\ fs[FigsPath] \subseteq ImageRelPaths /\ fs[PutPath] = {}
    /\ (~SomeEntryMalformed /\ pc # "start") =>
          /\ \A k \in DOMAIN extra_env :
                ~HasEq(k) /\ \E i \in 1..Len(EnvEntriesGiven) : IsKeyOf(k, EnvEntriesGiven[i])
          /\ \A i \in 1..Len(EnvEntriesGiven) :
                \E k \in DOMAIN extra_env : IsKeyOf(k, EnvEntriesGiven[i])

\* the run stopped at a malformed entry that follows a well-formed one with a
\* second '=' in it
C8_Witness ==
    /\ pc = "error"
    /\ args.env = << <<"K", "=", "v", "=", "w">>, <<"K", "v">> >>
    /\ created = {}

\* a well-formed list parsed: the entry with two '=' gives the key before the
\* first
C8_WitnessParsed ==
    /\ pc = "download"
    /\ args.env = << <<"K", "=", "v", "=", "w">> >>
    /\ DOMAIN extra_env = {<<"K">>}

-----------------------------------------------------------------------------
(* The render stage as the driver sees it *)

RenderRan == \E i \in 1..Len(launches) : launches[i].stage = "render" /\ launches[i].phase = "main"

\* C10: once the rendering script found at least one input file, an exception
\* while processing a file neither stops the loop nor fails the script: every
\* file is processed and the exit status is zero even if every file failed and
\* no image was written, so the driver goes on to the e-mail stage; the script
\* fails only when no input file matches.
C10_FileErrorsNeverFailRender ==
    RenderRan =>
        /\ gribs # <<>> =>
              /\ Len(rendered) = Len(gribs)
              /\ launches[Len(launches)].outcome = "ok"
              /\ Len(log) >= 2 /\ log[2] = "render.ok"
              /\ args.send_email => pc = "email" \/ EmailStarted
              /\ ~args.send_email => pc \in {"finish", "done"}
        /\ launches[Len(launches)].outcome = "nonzero" <=> gribs = <<>>

\* every file of the run failed at its first product, nothing was written and
\* the driver is about to send the e-mail
C10_Witness ==
    /\ RenderRan
    /\ Len(gribs) = 2
    /\ \A i \in 1..Len(gribs) : gribs[i].fails = ProductSet /\ rendered[i].written = {}
    /\ fs[PutPath] = {}
    /\ pc = "email"

-----------------------------------------------------------------------------
(* E-mail stage *)

EmailPasswordVar == GetEnv(environ, <<"EMAIL_PASSWORD">>)

\* a credential is usable when it is a non-empty string
Usable(c) == c # None /\ c # <<>>

NetworkUntouched == smtp = NoSession

\* C3: send_images_via_email raises a configuration error and attempts no
\* network call whenever the sender is missing, the recipient list is empty or
\* missing, or neither the password parameter nor EMAIL_PASSWORD supplies a
\* usable credential, whatever the other parameters and the image directory.
C3_BadConfigNoNetwork ==
    (/\ pc # "email"
     /\ \/ ~Usable(args.sender)
        \/ args.recipients = None \/ args.recipients = <<>>
        \/ ~Usable(args.password) /\ ~Usable(EmailPasswordVar)) =>
        /\ pc = "error"
        /\ err \in {"ValueError", "FileNotFoundError"}
        /\ NetworkUntouched

\* C3 with "unavailable" read as "absent": no password parameter that is a
\* non-empty string and no EMAIL_PASSWORD variable at all
C3_BadConfigNoNetwork_AbsentCredential ==
    (/\ pc # "email"
     /\ \/ ~Usable(args.sender)
        \/ args.recipients = None \/ args.recipients = <<>>
        \/ ~Usable(args.password) /\ EmailPasswordVar = None) =>
        /\ pc = "error"
        /\ err = "ValueError"
        /\ NetworkUntouched /\ archive = NoneList

\* the names of the '*.png' files directly in the image directory
DirectPngNames ==
    {x \in fs[Resolve(args.fig_dir)] :
        /\ ~\E i \in 1..Len(x) : x[i] = "/"
        /\ Len(x) > 0 /\ x[Len(x)] = ".png"}

ConfigAccepted ==
    /\ Usable(args.sender)
    /\ Usable(args.recipients)
    /\ ~(~Usable(args.password) /\ EmailPasswordVar = None)

C7_WitnessNone ==
    /\ pc = "error" /\ err = "FileNotFoundError"
    /\ fs[Resolve(args.fig_dir)] = { <<"b", ".PNG">>, <<"sub", "/", "a", ".png">> }

LoggedIn == smtp.login # None

\* C9: whenever an explicit password is supplied it is the credential of the
\* SMTP login, whatever EMAIL_PASSWORD holds; the value of EMAIL_PASSWORD is
\* used only when no explicit password is supplied.
C9_ExplicitPasswordFirst ==
    LoggedIn =>
        /\ Usable(args.password) => smtp.login = args.password
        /\ ~Usable(args.password) => smtp.login = EmailPasswordVar
        /\ (smtp.login = EmailPasswordVar /\ EmailPasswordVar # args.password) =>
              ~Usable(args.password)

\* a login with the explicit password while EMAIL_PASSWORD holds another one
C9_Witness ==
    /\ LoggedIn
    /\ args.password = <<"p">>
    /\ EmailPasswordVar = <<"e">>
    /\ smtp.login = <<"p">>

\* a login with the value of EMAIL_PASSWORD, no password given
C9_WitnessEnv ==
    /\ LoggedIn
    /\ args.password = None
    /\ smtp.login = <<"e">>

-----------------------------------------------------------------------------
(* The rendering script *)

ScriptEnded == pc = "exited"

\* the products of file i that come before product number k
Earlier(k) == {Products[j] : j \in 1..(k - 1)}

\* C6: an error raised while rendering one product of a GRIB file is caught
\* locally: for every file and every product P that fails, every other product
\* whose own rendering would succeed is still written.
C6_FailingProductLeavesOthers ==
    ScriptEnded =>
        \A i \in 1..Len(gribs) :
            \A P \in gribs[i].fails : \A Q \in ProductSet \ gribs[i].fails :
                /\ i <= Len(rendered)
                /\ Q \in rendered[i].written
                /\ ImageName(Q, gribs[i].valid) \in fs[PutPath]

\* C6 as the script has it: the products of a file are rendered in the order
\* temperature, wind, thickness, precipitation inside one try statement, so a
\* product is written exactly when neither it nor a product before it fails; a
\* failure prevents no product of another file, and a failing precipitation
\* product, the last one, prevents none at all.
C6_FailingProductStopsLaterOnes ==
    ScriptEnded =>
        /\ Len(rendered) = Len(gribs)
        /\ \A i \in 1..Len(gribs) : \A k \in 1..Len(Products) :
              /\ Products[k] \in rendered[i].written
                    <=> (Earlier(k) \cup {Products[k]}) \cap gribs[i].fails = {}
              /\ Products[k] \in rendered[i].written
                    => ImageName(Products[k], gribs[i].valid) \in fs[PutPath]
        /\ \A n \in fs[PutPath] :
              \E i \in 1..Len(gribs) : \E Q \in rendered[i].written :
                  n = ImageName(Q, gribs[i].valid)

\* the wind product of the first file failed: its temperature image is
\* written, its thickness and precipitation images are not, and the second
\* file, which fails nowhere, has all four
C6_Witness ==
    /\ ScriptEnded
    /\ Len(gribs) = 2
    /\ gribs[1].fails = {"Wind10m"} /\ rendered[1].written = {"Temp2m"}
    /\ gribs[2].fails = {} /\ rendered[2].written = ProductSet
    /\ gribs[1].valid # gribs[2].valid

=============================================================================
